---------------------------- MODULE Spec2Model ----------------------------
(***************************************************************************)
(* A model of ScraperFC's Transfermarkt client (src/ScraperFC/             *)
(* transfermarkt.py).  Every public method is a synchronous call: it       *)
(* fetches one or more pages, parses them and returns or raises.  The      *)
(* model follows a call from one page fetch to the next: the content of a  *)
(* fetched page is the environment's choice, everything the code does      *)
(* with it up to the next fetch (or up to the return/raise) is one step.   *)
(*                                                                         *)
(* Texts the code takes apart (labels, headlines) are sequences of         *)
(* one-character strings, so that split/strip/lower/replace are computed   *)
(* as Python computes them.  A Python None is the empty tuple None, a      *)
(* present value v is the one-element tuple Some(v).                       *)
(***************************************************************************)
EXTENDS Integers, Sequences, FiniteSets, TLC

VARIABLES
    op,             \* the public method being called ("none" before any call)
    year,           \* its `year` argument
    league,         \* its `league` argument
    link,           \* its link argument (scrape_player, scrape_trainer*)
    pc,             \* where the call stands: the page it is about to fetch
    clients,        \* the CloudScraper clients open now, innermost last
    released,       \* the clients closed so far in this call, in order
    valid_seasons,  \* the running frame's local `valid_seasons`: None while
                    \* unbound, Some(dict) once assigned
    club_links,     \* get_player_links local `club_links`
    idx,            \* position of the running for-loop (1-based)
    player_links,   \* get_player_links / scrape_players local `player_links`
    soup,           \* the running frame's local `soup`: the page read last
    found,          \* history: the player links in the roster tables of the
                    \* club pages read by this call
    fetched,        \* the URLs requested by this call, in order
    warned,         \* the warnings emitted by this call
    df,             \* scrape_players local `df`: None while unbound, then
                    \* Some(the rows concatenated so far)
    result,         \* the value returned (meaningful when pc = "done", no exc)
    exc             \* the exception that left the call (NoExc if none)

vars == <<op, year, league, link, pc, clients, released, valid_seasons,
          club_links, idx, player_links, soup, found, fetched, warned,
          df, result, exc>>

---------------------------------------------------------------------------
(* Bounds of the model.                                                    *)

MaxSeasons == 2     \* <option> tags of a season selector
MaxClubs == 2       \* club cells of a roster-listing table
MaxPlayers == 1     \* player cells of a club's roster table
MaxMatches == 2     \* result links of a fixture page
MaxLabels == 2      \* data-header labels of a player page
MaxEntries == 2     \* <li> entries of a trainer header
MaxCols == 2        \* header cells of a trainer history table
MaxRows == 2        \* body rows of a trainer history table

---------------------------------------------------------------------------
(* Python values.                                                          *)

None == <<>>
Some(v) == <<v>>
IsNone(x) == x = <<>>
Get(x) == x[1]

\* A value that is not a str (an int, a None, ...) passed as an argument.
NonStr == "<not a str>"
IsStr(x) == x # NonStr

NoExc == [type |-> "none", args |-> <<>>]
Exc(t, a) == [type |-> t, args |-> a]

Range(s) == {s[i] : i \in 1..Len(s)}
Reverse(s) == [i \in 1..Len(s) |-> s[Len(s) + 1 - i]]
SeqsUpTo(S, n) == UNION {[1..k -> S] : k \in 0..n}
Front(s) == SubSeq(s, 1, Len(s) - 1)
Last(s) == s[Len(s)]

\* The orders in which list(set(xs)) may enumerate the set S.
Orders(S) == {o \in [1..Cardinality(S) -> S] : Range(o) = S}

---------------------------------------------------------------------------
(* str methods, on sequences of characters.                                *)

UpperChars == <<"A","B","C","D","E","F","G","H","I","J","K","L","M",
                "N","O","P","Q","R","S","T","U","V","W","X","Y","Z">>
LowerChars == <<"a","b","c","d","e","f","g","h","i","j","k","l","m",
                "n","o","p","q","r","s","t","u","v","w","x","y","z">>
Whitespace == {" ", "\n", "\t"}
Digits == <<"0","1","2","3","4","5","6","7","8","9">>

\* str.lower(), one character
LowerChar(c) ==
    IF \E i \in 1..Len(UpperChars) : UpperChars[i] = c
    THEN LowerChars[CHOOSE i \in 1..Len(UpperChars) : UpperChars[i] = c]
    ELSE c

\* str.lower()
Lower(s) == [i \in 1..Len(s) |-> LowerChar(s[i])]

\* t occurs in s at position i
OccursAt(s, t, i) ==
    /\ i >= 1
    /\ i + Len(t) - 1 <= Len(s)
    /\ SubSeq(s, i, i + Len(t) - 1) = t

\* `t in s`
Contains(s, t) == \E i \in 1..(Len(s) + 1) : OccursAt(s, t, i)

\* str.find(t) + 1, with t known to occur in s
FirstAt(s, t) == CHOOSE i \in 1..(Len(s) + 1) :
                    /\ OccursAt(s, t, i)
                    /\ \A j \in 1..(i - 1) : ~OccursAt(s, t, j)

\* str.split(sep), sep not empty
RECURSIVE Split(_, _)
Split(s, sep) ==
    IF ~Contains(s, sep) THEN <<s>>
    ELSE LET i == FirstAt(s, sep)
         IN  <<SubSeq(s, 1, i - 1)>> \o Split(SubSeq(s, i + Len(sep), Len(s)), sep)

\* str.lstrip() / str.rstrip() / str.strip()
RECURSIVE LStrip(_)
LStrip(s) == IF s # <<>> /\ s[1] \in Whitespace THEN LStrip(Tail(s)) ELSE s
RECURSIVE RStrip(_)
RStrip(s) == IF s # <<>> /\ Last(s) \in Whitespace THEN RStrip(Front(s)) ELSE s
Strip(s) == RStrip(LStrip(s))

\* sep.join(parts)
RECURSIVE Join(_, _)
Join(parts, sep) ==
    IF parts = <<>> THEN <<>>
    ELSE IF Len(parts) = 1 THEN parts[1]
    ELSE parts[1] \o sep \o Join(Tail(parts), sep)

\* str.replace(old, new), old not empty
Replace(s, old, new) == Join(Split(s, old), new)

\* str.split() with no argument: the maximal runs of non-whitespace
RECURSIVE SplitWS(_)
SplitWS(s) ==
    LET t == LStrip(s)
    IN  IF t = <<>> THEN <<>>
        ELSE LET n == IF \E i \in 1..Len(t) : t[i] \in Whitespace
                      THEN (CHOOSE i \in 1..Len(t) :
                              /\ t[i] \in Whitespace
                              /\ \A j \in 1..(i - 1) : t[j] \notin Whitespace) - 1
                      ELSE Len(t)
             IN  <<SubSeq(t, 1, n)>> \o SplitWS(SubSeq(t, n + 1, Len(t)))

\* list[a:b] with 0 <= a and b counted from the end when negative (b = -k)
Slice(s, a, fromEnd) ==
    IF Len(s) - fromEnd <= a THEN <<>> ELSE SubSeq(s, a + 1, Len(s) - fromEnd)

\* int(s) accepts optional surrounding whitespace and a run of digits
IsDigit(c) == \E i \in 1..Len(Digits) : Digits[i] = c
IsIntLiteral(s) ==
    LET t == Strip(s) IN t # <<>> /\ \A i \in 1..Len(t) : IsDigit(t[i])
DigitVal(c) == (CHOOSE i \in 1..Len(Digits) : Digits[i] = c) - 1
RECURSIVE DigitsVal(_)
DigitsVal(t) == IF t = <<>> THEN 0 ELSE 10 * DigitsVal(Front(t)) + DigitVal(Last(t))
IntOf(s) == DigitsVal(Strip(s))

\* float(s) accepts digits with at most one "." among them
IsFloatLiteral(s) ==
    LET t == Strip(s)
    IN  /\ \E i \in 1..Len(t) : IsDigit(t[i])
        /\ \A i \in 1..Len(t) : IsDigit(t[i]) \/ t[i] = "."
        /\ Cardinality({i \in 1..Len(t) : t[i] = "."}) <= 1
\* the float as (digits without the point, number of decimals)
FloatOf(s) ==
    LET t == Strip(s)
        p == IF Contains(t, <<".">>) THEN FirstAt(t, <<".">>) ELSE Len(t) + 1
    IN  [digits |-> DigitsVal(SelectSeq(t, IsDigit)),
         decimals |-> IF p > Len(t) THEN 0 ELSE Len(t) - p]


---------------------------------------------------------------------------
(* dict, as the sequence of its (key, value) items in insertion order.     *)

HasKey(d, k) == \E i \in 1..Len(d) : d[i][1] = k
Lookup(d, k) == d[CHOOSE i \in 1..Len(d) : d[i][1] = k][2]
Keys(d) == [i \in 1..Len(d) |-> d[i][1]]
DictPut(d, k, v) ==
    IF HasKey(d, k)
    THEN [i \in 1..Len(d) |-> IF d[i][1] = k THEN <<k, v>> ELSE d[i]]
    ELSE Append(d, <<k, v>>)
\* dict(pairs)
RECURSIVE DictOf(_)
DictOf(ps) ==
    IF ps = <<>> THEN <<>>
    ELSE DictPut(DictOf(Front(ps)), Last(ps)[1], Last(ps)[2])

---------------------------------------------------------------------------
(* The site.  A URL is the sequence of its path segments and suffixes.     *)

TRANSFERMARKT_ROOT == "https://www.transfermarkt.us"

\* `comps`: competition -> base URL, in the order of comps.keys()
CompKeys == <<"EPL", "Bundesliga">>
Comps == Range(CompKeys)
CompUrl(l) ==
    IF l = "EPL"
    THEN <<TRANSFERMARKT_ROOT, "premier-league", "startseite", "wettbewerb", "GB1">>
    ELSE <<TRANSFERMARKT_ROOT, "bundesliga", "startseite", "wettbewerb", "L1">>

RosterUrl(l, sid) == CompUrl(l) \o <<"plus", "?saison_id=" , sid>>
FixturesUrl(l, sid) ==
    [i \in 1..Len(CompUrl(l)) |->
        IF CompUrl(l)[i] = "startseite" THEN "gesamtspielplan" ELSE CompUrl(l)[i]]
    \o <<"saison_id", sid>>
\* TRANSFERMARKT_ROOT + href
AbsUrl(href) == <<TRANSFERMARKT_ROOT>> \o href

\* Arguments the calls are tried with.
LeagueArgs == {"EPL", "Eredivisie", NonStr}
SeasonLabels == {"23/24", "22/23"}
YearArgs == {"23/24", NonStr}

\* What a fetch can answer.  kind "neterr": the request itself raises.
NoAttr == "<no attribute>"
SeasonIds == {"2023", "2022"}
Options == [text : SeasonLabels, value : SeasonIds \cup {NoAttr}]
SeasonPages ==
    {[kind |-> "neterr", options |-> <<>>], [kind |-> "noselect", options |-> <<>>]}
    \cup {[kind |-> "select", options |-> os] : os \in SeqsUpTo(Options, MaxSeasons)}

NoAnchor == <<"<td without a>">>
NoHref == <<"<a without href>">>
ClubHrefs == {<<"fc-a", "startseite", "verein", "11">>,
              <<"fc-b", "startseite", "verein", "12">>}
PlayerHrefs == {<<"p-one", "profil", "spieler", "101">>,
                <<"p-two", "profil", "spieler", "102">>}
MatchHrefs == {<<"spielbericht", "index", "spielbericht", "7">>,
               <<"spielbericht", "index", "spielbericht", "8">>}
ListingPages(hrefs, n) ==
    {[kind |-> "neterr", cells |-> <<>>], [kind |-> "notable", cells |-> <<>>]}
    \cup {[kind |-> "table", cells |-> cs] :
            cs \in SeqsUpTo(hrefs \cup {NoAnchor, NoHref}, n)}
RosterPages == ListingPages(ClubHrefs, MaxClubs)
ClubPages == ListingPages(PlayerHrefs, MaxPlayers)
FixturePages ==
    {[kind |-> "neterr", cells |-> <<>>]}
    \cup {[kind |-> "html", cells |-> cs] :
            cs \in SeqsUpTo(MatchHrefs \cup {NoHref}, MaxMatches)}
\* No page read (yet, or any more).
NoPage == [kind |-> "none"]

---------------------------------------------------------------------------
(* The state of a call as one record, and the steps on it.                 *)

Cur == [op |-> op, year |-> year, league |-> league, link |-> link, pc |-> pc,
        clients |-> clients, released |-> released,
        valid_seasons |-> valid_seasons, club_links |-> club_links,
        idx |-> idx, player_links |-> player_links, soup |-> soup,
        found |-> found, fetched |-> fetched, warned |-> warned, df |-> df,
        result |-> result, exc |-> exc]

Apply(n) ==
    /\ op' = n.op /\ year' = n.year /\ league' = n.league /\ link' = n.link
    /\ pc' = n.pc /\ clients' = n.clients /\ released' = n.released
    /\ valid_seasons' = n.valid_seasons /\ club_links' = n.club_links
    /\ idx' = n.idx /\ player_links' = n.player_links /\ soup' = n.soup
    /\ found' = n.found
    /\ fetched' = n.fetched /\ warned' = n.warned /\ df' = n.df
    /\ result' = n.result /\ exc' = n.exc

\* The state in which a call of method o starts.
Fresh(o, y, l, k) ==
    [op |-> o, year |-> y, league |-> l, link |-> k, pc |-> "idle",
     clients |-> <<>>, released |-> <<>>, valid_seasons |-> None,
     club_links |-> <<>>, idx |-> 0, player_links |-> <<>>, soup |-> NoPage,
     found |-> {}, fetched |-> <<>>, warned |-> <<>>, df |-> None,
     result |-> <<>>, exc |-> NoExc]

\* cloudscraper.CloudScraper()
Opened(s, who) == [s EXCEPT !.clients = Append(@, who)]
\* finally: scraper.close(), of the innermost frame
Closed(s) == [s EXCEPT !.clients = Front(@),
                       !.released = Append(@, Last(s.clients))]
\* An exception that leaves the call past the clients, closing none.
Raised_NoFinally(s, e) ==
    [s EXCEPT !.pc = "done", !.exc = e, !.result = <<>>]

\* An exception leaves the call: every frame's finally closes its client,
\* innermost first.
Raised(s, e) ==
    [s EXCEPT !.pc = "done", !.exc = e, !.result = <<>>,
              !.released = @ \o Reverse(s.clients), !.clients = <<>>]
\* scraper.get(url) / requests.get(url) answered with page p
Got(s, url, p) == [s EXCEPT !.fetched = Append(@, url), !.soup = p]


---------------------------------------------------------------------------
(* get_valid_seasons, get_club_links, get_player_links, get_match_links.   *)

\* A parse's outcome: the exception it raises, or its value.
Fails(t, a) == [exc |-> Exc(t, a), value |-> <<>>, warn |-> <<>>]
Gives(v) == [exc |-> NoExc, value |-> v, warn |-> <<>>]

\* A get_valid_seasons without the membership check of `comps`.
EnterValidSeasons_Unchecked(s) ==
    IF ~IsStr(s.league)
    THEN Raised(s, Exc("TypeError", <<"league must be a string.">>))
    ELSE [Opened(s, "get_valid_seasons") EXCEPT !.pc = "seasons"]

\* get_valid_seasons up to the request: the argument checks, then the client.
EnterValidSeasons(s) ==
    IF ~IsStr(s.league)
    THEN Raised(s, Exc("TypeError", <<"league must be a string.">>))
    ELSE IF s.league \notin Comps
    THEN Raised(s, Exc("InvalidLeagueException",
                       <<s.league, "Transfermarkt", CompKeys>>))
    ELSE [Opened(s, "get_valid_seasons") EXCEPT !.pc = "seasons"]

\* The season selector's options as a dict, text -> value.
ParseSeasons(p) ==
    IF p.kind = "neterr" THEN Fails("ConnectionError", <<>>)
    ELSE IF p.kind = "noselect" THEN Fails("AttributeError", <<"find_all">>)
    ELSE IF \E i \in 1..Len(p.options) : p.options[i].value = NoAttr
    THEN Fails("KeyError", <<"value">>)
    ELSE Gives(DictOf([i \in 1..Len(p.options) |->
                         <<p.options[i].text, p.options[i].value>>]))

\* A get_club_links that looks the year up without validating it first.
ClubLinksResume_Unvalidated(s, vs) ==
    LET s1 == [s EXCEPT !.valid_seasons = Some(vs), !.soup = NoPage]
    IN  IF ~HasKey(vs, s.year)
        THEN Raised(s1, Exc("KeyError", <<s.year>>))
        ELSE [Opened(s1, "get_club_links") EXCEPT !.pc = "roster"]

\* get_club_links between get_valid_seasons' return and its own request.
ClubLinksResume(s, vs) ==
    LET s1 == [s EXCEPT !.valid_seasons = Some(vs), !.soup = NoPage]
    IN  IF ~HasKey(vs, s.year)
        THEN Raised(s1, Exc("InvalidYearException", <<s.year, s.league, Keys(vs)>>))
        ELSE [Opened(s1, "get_club_links") EXCEPT !.pc = "roster"]

\* get_match_links between get_valid_seasons' return and its own request:
\* valid_seasons[year] is evaluated while the fixtures URL is built.
MatchLinksResume(s, vs) ==
    LET s1 == [s EXCEPT !.valid_seasons = Some(vs), !.soup = NoPage]
    IN  IF ~HasKey(vs, s.year)
        THEN Raised(s1, Exc("KeyError", <<s.year>>))
        ELSE [Opened(s1, "get_match_links") EXCEPT !.pc = "fixtures"]

\* get_valid_seasons' return, to its caller.
ValidSeasonsReturn(s, vs) ==
    LET s1 == Closed(s)
    IN  IF s.op = "get_valid_seasons"
        THEN [s1 EXCEPT !.pc = "done", !.valid_seasons = Some(vs), !.result = vs]
        ELSE IF s.op = "get_match_links" THEN MatchLinksResume(s1, vs)
        ELSE ClubLinksResume(s1, vs)

\* get_valid_seasons from its request on.
SeasonsFetched(s, p) ==
    LET s1 == Got(s, CompUrl(s.league), p)
        r == ParseSeasons(p)
    IN  IF r.exc # NoExc THEN Raised(s1, r.exc) ELSE ValidSeasonsReturn(s1, r.value)

\* get_club_links up to get_valid_seasons' request.
EnterClubLinks(s) ==
    IF ~IsStr(s.year)
    THEN Raised(s, Exc("TypeError", <<"year must be a string.">>))
    ELSE EnterValidSeasons(s)

\* A get_club_links that dereferences the missing table instead of warning.
ParseRoster_Strict(p) ==
    IF p.kind = "neterr" THEN Fails("ConnectionError", <<>>)
    ELSE IF p.kind = "notable" THEN Fails("AttributeError", <<"find_all">>)
    ELSE IF \E i \in 1..Len(p.cells) : p.cells[i] \in {NoAnchor, NoHref}
    THEN Fails("TypeError", <<"NoneType">>)
    ELSE Gives([i \in 1..Len(p.cells) |-> AbsUrl(p.cells[i])])

\* The club URLs of a roster-listing page.
ParseRoster(p) ==
    IF p.kind = "neterr" THEN Fails("ConnectionError", <<>>)
    ELSE IF p.kind = "notable"
    THEN [exc |-> NoExc, value |-> <<>>, warn |-> <<"No club links table found">>]
    ELSE IF \E i \in 1..Len(p.cells) : p.cells[i] \in {NoAnchor, NoHref}
    THEN LET i == CHOOSE i \in 1..Len(p.cells) :
                    /\ p.cells[i] \in {NoAnchor, NoHref}
                    /\ \A j \in 1..(i - 1) : p.cells[j] \notin {NoAnchor, NoHref}
         IN  IF p.cells[i] = NoAnchor THEN Fails("TypeError", <<"NoneType">>)
             ELSE Fails("KeyError", <<"href">>)
    ELSE Gives([i \in 1..Len(p.cells) |-> AbsUrl(p.cells[i])])

\* scrape_players: the loop over player_links, at its head.
AggLoop(s) ==
    IF s.idx > Len(s.player_links)
    THEN [s EXCEPT !.pc = "done", !.result = Get(s.df)]
    ELSE [s EXCEPT !.pc = "players"]

\* A get_player_links that returns the collected list as it is.
PlayerLinksReturn_NoDedup(s, o) ==
    LET s1 == Closed(s)
    IN  IF s.op = "get_player_links"
        THEN [s1 EXCEPT !.pc = "done", !.result = s.player_links]
        ELSE AggLoop([s1 EXCEPT !.club_links = <<>>,
                                !.soup = NoPage, !.found = {}, !.df = Some(<<>>),
                                !.idx = 1])

\* get_player_links' return, to its caller; o is the order list(set(...)) gives.
PlayerLinksReturn(s, o) ==
    LET s1 == Closed(s)
    IN  IF s.op = "get_player_links"
        THEN [s1 EXCEPT !.pc = "done", !.result = o]
        ELSE AggLoop([s1 EXCEPT !.player_links = o, !.club_links = <<>>,
                                !.soup = NoPage, !.found = {}, !.df = Some(<<>>),
                                !.idx = 1])

\* get_player_links: the loop over club_links, at its head.
PlayerLoop(s, o) ==
    IF s.idx > Len(s.club_links) THEN PlayerLinksReturn(s, o)
    ELSE [s EXCEPT !.pc = "clubs"]

\* get_club_links' return, to its caller.
ClubLinksReturn(s, links, o) ==
    LET s1 == Closed(s)
    IN  IF s.op = "get_club_links"
        THEN [s1 EXCEPT !.pc = "done", !.result = links]
        ELSE PlayerLoop([s1 EXCEPT !.club_links = links, !.valid_seasons = None,
                                   !.soup = NoPage, !.idx = 1], o)

\* get_club_links from its request on.
RosterFetched(s, p, o) ==
    LET s1 == Got(s, RosterUrl(s.league, Lookup(Get(s.valid_seasons), s.year)), p)
        r == ParseRoster(p)
    IN  IF r.exc # NoExc THEN Raised(s1, r.exc)
        ELSE ClubLinksReturn([s1 EXCEPT !.warned = @ \o r.warn], r.value, o)

\* get_player_links up to get_valid_seasons' request.
EnterPlayerLinks(s) ==
    EnterClubLinks(Opened([s EXCEPT !.player_links = <<>>], "get_player_links"))

\* x.find("a") is not None
HasAnchor(c) == c # NoAnchor

\* The player URLs of a club page.
ParseClub(p) ==
    IF p.kind = "neterr" THEN Fails("ConnectionError", <<>>)
    ELSE IF p.kind = "notable" THEN Gives(<<>>)
    ELSE LET withA == SelectSeq(p.cells, HasAnchor)
         IN  IF \E i \in 1..Len(withA) : withA[i] = NoHref
             THEN Fails("KeyError", <<"href">>)
             ELSE Gives([i \in 1..Len(withA) |-> AbsUrl(withA[i])])

\* The player links in the roster table of club page p (none without one).
TableLinks(p) ==
    IF p.kind = "table" THEN {AbsUrl(c) : c \in Range(p.cells) \cap PlayerHrefs}
    ELSE {}

\* get_player_links: one round of the loop, from its request on.
ClubFetched(s, p, o) ==
    LET s1 == [Got(s, s.club_links[s.idx], p) EXCEPT !.found = @ \cup TableLinks(p)]
        r == ParseClub(p)
    IN  IF r.exc # NoExc THEN Raised(s1, r.exc)
        ELSE PlayerLoop([s1 EXCEPT !.player_links = @ \o r.value, !.idx = @ + 1], o)

\* The match URLs of a fixture page.
ParseFixtures(p) ==
    IF p.kind = "neterr" THEN Fails("ConnectionError", <<>>)
    ELSE IF \E i \in 1..Len(p.cells) : p.cells[i] = NoHref
    THEN Fails("KeyError", <<"href">>)
    ELSE Gives([i \in 1..Len(p.cells) |-> AbsUrl(p.cells[i])])

\* get_match_links from its request on.
FixturesFetched(s, p) ==
    LET s1 == Got(s, FixturesUrl(s.league, Lookup(Get(s.valid_seasons), s.year)), p)
        r == ParseFixtures(p)
    IN  IF r.exc # NoExc THEN Raised(s1, r.exc)
        ELSE [Closed(s1) EXCEPT !.pc = "done", !.result = r.value]

---------------------------------------------------------------------------
(* scrape_player.  A player page is the record of the elements the code    *)
(* looks up; an element that soup.find does not find is None.              *)

\* The searched substrings and separators, as the code spells them.
LAST_CLUB == <<"l","a","s","t"," ","c","l","u","b">>
SINCE == <<"s","i","n","c","e">>
JOINED == <<"j","o","i","n","e","d">>
CONTRACT_EXPIRES == <<"c","o","n","t","r","a","c","t"," ","e","x","p","i","r","e","s">>
POSITION == <<"p","o","s","i","t","i","o","n">>
LAST_UPDATE == <<"L","a","s","t"," ","u","p","d","a","t","e",":"," ">>
DATUM_MW == <<"d","a","t","u","m","_","m","w","\"",":">>
COMMA_QUOTE_X == <<",","\"","x">>
ESCAPED_SPACE == <<"\\","x","2","0">>

\* A label scan that compares without lowering the label.
LabelMatches_CaseSensitive(labels, needle) ==
    LET hit(x) == Contains(x, needle)
        hits == SelectSeq(labels, hit)
    IN  [i \in 1..Len(hits) |-> Strip(Last(Split(hits[i], <<":">>)))]

\* [x.text.split(":")[-1].strip() for x in labels if needle in x.text.lower()]
LabelMatches(labels, needle) ==
    LET hit(x) == Contains(Lower(x), needle)
        hits == SelectSeq(labels, hit)
    IN  [i \in 1..Len(hits) |-> Strip(Last(Split(hits[i], <<":">>)))]

\* One label-scanned field: the assert, then None or the only match.
LabelScan(labels, needle) ==
    LET m == LabelMatches(labels, needle)
    IN  IF ~(Len(m) < 2) THEN Fails("AssertionError", <<needle>>)
        ELSE Gives(IF Len(m) = 0 THEN None ELSE Some(m[1]))

\* name_tag.text.split("\n")[-1].strip()
PlayerName(p) ==
    IF IsNone(p.name) THEN Fails("AttributeError", <<"text">>)
    ELSE Gives(Strip(Last(Split(Get(p.name), <<"\n">>))))

\* Value and "Value last updated"; the AttributeError of a missing block
\* is caught.
PlayerValue(p) ==
    IF IsNone(p.value) THEN [value |-> None, updated |-> None]
    ELSE [value |-> Some(Split(Get(p.value), <<" ">>)[1]),
          updated |-> Some(Last(Split(Get(p.value), LAST_UPDATE)))]

\* DOB and age
PlayerDob(p) ==
    IF IsNone(p.dob) THEN Gives([dob |-> None, age |-> None])
    ELSE LET parts == Split(Strip(Get(p.dob)), <<" ">>)
             a == Replace(Replace(Last(parts), <<"(">>, <<>>), <<")">>, <<>>)
         IN  IF ~IsIntLiteral(a) THEN Fails("ValueError", <<"int">>)
             ELSE Gives([dob |-> Some(Join(SubSeq(parts, 1, IF Len(parts) < 3
                                                            THEN Len(parts) ELSE 3),
                                           <<" ">>)),
                         age |-> Some(IntOf(a))])

\* Height (m)
PlayerHeight(p) ==
    IF IsNone(p.height) THEN Gives(None)
    ELSE LET h == Strip(Get(p.height))
         IN  IF h \in {<<"N","/","A">>, <<"-"," ","m">>} THEN Gives(None)
             ELSE LET f == Replace(Replace(h, <<" ","m">>, <<>>), <<",">>, <<".">>)
                  IN  IF ~IsFloatLiteral(f) THEN Fails("ValueError", <<"float">>)
                      ELSE Gives(Some(FloatOf(f)))

\* Nationality
PlayerNationality(p) ==
    IF IsNone(p.nationality) THEN None
    ELSE Some(Strip(Replace(Get(p.nationality), <<"\n">>, <<>>)))

\* Position: the <dd>, else the first <li> label mentioning "position"
PlayerPosition(p) ==
    IF ~IsNone(p.position) THEN Gives(Strip(Get(p.position)))
    ELSE LET hit(el) == Contains(Lower(el.text), POSITION)
             hits == SelectSeq(p.poslabels, hit)
         IN  IF hits = <<>> THEN Fails("IndexError", <<"list index out of range">>)
             ELSE IF IsNone(hits[1].span) THEN Fails("AttributeError", <<"text">>)
             ELSE Gives(Strip(Get(hits[1].span)))

\* Market value history, from the segments of str(script).split('y":')
PlayerChart(p) ==
    IF IsNone(p.chart) THEN Gives(None)
    ELSE LET segs == Slice(Get(p.chart), 2, 2)
             y(i) == Split(segs[i], <<",">>)[1]
             d(i) == Replace(Replace(Split(Last(Split(segs[i], DATUM_MW)),
                                           COMMA_QUOTE_X)[1],
                                     ESCAPED_SPACE, <<" ">>), <<"\"">>, <<>>)
         IN  IF \E i \in 1..Len(segs) : ~IsIntLiteral(y(i))
             THEN Fails("ValueError", <<"int">>)
             ELSE Gives(Some([i \in 1..Len(segs) |->
                                [date |-> d(i), value |-> IntOf(y(i))]]))

\* Transfer history: pd.DataFrame(data=rows, columns=<7 names>) pads ragged
\* rows to the longest and refuses a width other than 7; the last column
\* is dropped.
TransferColumns == 7
PlayerTransfers(p) ==
    LET width == IF p.transfer = <<>> THEN TransferColumns
                 ELSE CHOOSE n \in {Len(p.transfer[i]) : i \in 1..Len(p.transfer)} :
                        \A i \in 1..Len(p.transfer) : Len(p.transfer[i]) <= n
    IN  IF width # TransferColumns THEN Fails("ValueError", <<"columns">>)
        ELSE Gives([i \in 1..Len(p.transfer) |->
                      [j \in 1..(TransferColumns - 1) |->
                         IF j <= Len(p.transfer[i]) THEN Some(p.transfer[i][j])
                         ELSE None]])

\* The first exception among outcomes, in the order the code runs them.
FirstExc(rs) ==
    IF \E i \in 1..Len(rs) : rs[i].exc # NoExc
    THEN rs[CHOOSE i \in 1..Len(rs) :
              /\ rs[i].exc # NoExc
              /\ \A j \in 1..(i - 1) : rs[j].exc = NoExc].exc
    ELSE NoExc

\* scrape_player(k) on page p; co is the order list(set(titles)) gives.
ScrapePlayer(k, p, co) ==
    IF p.kind = "neterr" THEN Fails("ConnectionError", <<>>)
    ELSE
    LET name == PlayerName(p)
        val == PlayerValue(p)
        dob == PlayerDob(p)
        height == PlayerHeight(p)
        position == PlayerPosition(p)
        last_club == LabelScan(p.labels, LAST_CLUB)
        since_date == LabelScan(p.labels, SINCE)
        joined_date == LabelScan(p.labels, JOINED)
        contract_expiration == LabelScan(p.labels, CONTRACT_EXPIRES)
        market_value_history == PlayerChart(p)
        transfer_history == PlayerTransfers(p)
        e == FirstExc(<<name, dob, height, position, last_club, since_date,
                        joined_date, contract_expiration, market_value_history,
                        transfer_history>>)
    IN  IF e # NoExc THEN [exc |-> e, value |-> <<>>, warn |-> <<>>]
        ELSE Gives([Name |-> name.value,
                    ID |-> Last(k),
                    Value |-> val.value,
                    Value_last_updated |-> val.updated,
                    DOB |-> dob.value.dob,
                    Age |-> dob.value.age,
                    Height |-> height.value,
                    Nationality |-> PlayerNationality(p),
                    Citizenship |-> co,
                    Position |-> position.value,
                    Other_positions |-> p.otherpos,
                    Team |-> IF IsNone(p.team) THEN None ELSE Some(Strip(Get(p.team))),
                    Last_club |-> last_club.value,
                    Since |-> since_date.value,
                    Joined |-> joined_date.value,
                    Contract_expiration |-> contract_expiration.value,
                    Market_value_history |-> market_value_history.value,
                    Transfer_history |-> transfer_history.value])

\* The pages scrape_player is tried on.
LabelTexts == {<<"L","a","s","t"," ","c","l","u","b",":"," ","A">>, <<"S","I","N","C","E",":"," ","1",":","2"," ">>, <<"J","o","i","n","e","d",":"," ","B">>, <<"C","o","n","t","r","a","c","t"," ","e","x","p","i","r","e","s",":"," ","C">>,
               <<"R","e","j","o","i","n","e","d"," ","s","i","n","c","e"," ","D">>, <<"F","o","o","t",":"," ","R">>}
LabelLists == SeqsUpTo(LabelTexts, MaxLabels)

GoodSegment == <<"5",",","\"","d","a","t","u","m","_","m","w","\"",":","\"","J","\\","x","2","0","1","\"",",","\"","x","\"",":","1">>
BadSegment == <<"n","u","l","l",",","\"","d","a","t","u","m","_","m","w","\"",":","\"","J","\\","x","2","0","1","\"",",","\"","x","\"",":","1">>
FullRow == <<"23/24", "Jul 1", "FC A", "FC B", "1m", "2m", "x">>

\* A page that has every element.
FullPage ==
    [kind |-> "html",
     name |-> Some(<<"#","7","\n","A","d","a"," ">>),
     value |-> Some(<<"5","m"," ","L","a","s","t"," ","u","p","d","a","t","e",":"," ","X">>),
     dob |-> Some(<<" ","J"," ","1",","," ","9","0"," ","(","3","4",")">>),
     height |-> Some(<<"1",",","8","5"," ","m">>),
     nationality |-> Some(<<"\n","P","e","r","u"," ">>),
     flags |-> <<"Peru", "Peru">>,
     position |-> Some(<<" ","C","F"," ">>),
     poslabels |-> <<>>,
     otherpos |-> Some(<<<<"C","F">>, <<"L","W">>>>),
     team |-> Some(<<" ","F","C"," ","A"," ">>),
     labels |-> <<>>,
     chart |-> Some(<<<<"a">>, <<"b">>, GoodSegment, <<"c">>, <<"d">>>>),
     transfer |-> <<FullRow>>]

\* The pages that differ from page q in one element.
Variants(q) ==
    {[q EXCEPT !.kind = "neterr"], [q EXCEPT !.name = None],
     [q EXCEPT !.value = None], [q EXCEPT !.dob = None],
     [q EXCEPT !.dob = Some(<<"N","/","A">>)], [q EXCEPT !.height = None],
     [q EXCEPT !.height = Some(<<"N","/","A">>)], [q EXCEPT !.height = Some(<<"-"," ","m">>)],
     [q EXCEPT !.height = Some(<<"t","a","l","l">>)], [q EXCEPT !.nationality = None],
     [q EXCEPT !.flags = <<>>], [q EXCEPT !.flags = <<"Peru", "Chile">>],
     [q EXCEPT !.position = None],
     [q EXCEPT !.position = None,
               !.poslabels = <<[text |-> <<"F","o","o","t",":">>, span |-> Some(<<"R">>)],
                               [text |-> <<"P","o","s","i","t","i","o","n",":">>, span |-> Some(<<" ","L","W">>)]>>],
     [q EXCEPT !.position = None,
               !.poslabels = <<[text |-> <<"P","o","s","i","t","i","o","n",":">>, span |-> None]>>],
     [q EXCEPT !.otherpos = None], [q EXCEPT !.team = None],
     [q EXCEPT !.chart = None],
     [q EXCEPT !.chart = Some(<<<<"a">>, <<"b">>, BadSegment, <<"c">>, <<"d">>>>)],
     [q EXCEPT !.chart = Some(<<<<"a">>, <<"b">>, GoodSegment>>)],
     [q EXCEPT !.transfer = <<>>],
     [q EXCEPT !.transfer = <<FullRow, Front(FullRow)>>],
     [q EXCEPT !.transfer = <<Front(FullRow)>>]}

OneOff == {FullPage} \cup Variants(FullPage)
TwoOff == OneOff \cup UNION {Variants(q) : q \in OneOff}
\* The pages the label lists are tried on: the scan is reached and the call
\* returns, is not reached, is reached and the call fails after it.
LabelBases == {FullPage, [FullPage EXCEPT !.name = None],
               [FullPage EXCEPT !.transfer = <<Front(FullRow)>>]}
PlayerPages ==
    TwoOff \cup {[q EXCEPT !.labels = ls] : q \in LabelBases, ls \in LabelLists}

\* The pages the aggregator's loop is tried on.
AggPlayerPages ==
    {FullPage, [FullPage EXCEPT !.kind = "neterr"], [FullPage EXCEPT !.name = None],
     [FullPage EXCEPT !.labels = <<<<"J","o","i","n","e","d",":"," ","B">>, <<"R","e","j","o","i","n","e","d"," ","s","i","n","c","e"," ","D">>>>]}

\* scrape_player from its request on.
ProfileFetched(s, p, co) ==
    LET s1 == Got(s, s.link, p)
        r == ScrapePlayer(s.link, p, co)
    IN  IF r.exc # NoExc THEN Raised(s1, r.exc)
        ELSE [s1 EXCEPT !.pc = "done", !.result = <<r.value>>]

\* A scrape_players that skips a player whose scrape raised.
PlayerFetched_SkipFailed(s, p, co) ==
    LET s1 == Got(s, s.player_links[s.idx], p)
        r == ScrapePlayer(s.player_links[s.idx], p, co)
    IN  IF r.exc # NoExc THEN AggLoop([s1 EXCEPT !.idx = @ + 1])
        ELSE AggLoop([s1 EXCEPT !.df = Some(Append(Get(@), r.value)), !.idx = @ + 1])

\* scrape_players: one round of the loop, from scrape_player's request on.
PlayerFetched(s, p, co) ==
    LET s1 == Got(s, s.player_links[s.idx], p)
        r == ScrapePlayer(s.player_links[s.idx], p, co)
    IN  IF r.exc # NoExc THEN Raised(s1, r.exc)
        ELSE AggLoop([s1 EXCEPT !.df = Some(Append(Get(@), r.value)), !.idx = @ + 1])

---------------------------------------------------------------------------
(* scrape_trainer_history.  A DataFrame is its column names and its rows.  *)

Frame(cols, rows) == [columns |-> cols, rows |-> rows]
\* pd.DataFrame()
EmptyFrame == Frame(<<>>, <<>>)

\* th.get("title") or th.get_text(strip=True)
ColumnName(th) ==
    IF ~IsNone(th.title) /\ Get(th.title) # <<>> THEN Get(th.title)
    ELSE Strip(th.text)

\* A row that is left as short as its cells.
AlignedRow_NoPadding(tds, ncols) ==
    [j \in 1..Len(tds) |-> Some(Strip(tds[j]))]

\* One body row aligned with the header: its stripped cell texts, padded
\* on the right with None.
AlignedRow(tds, ncols) ==
    [j \in 1..(IF Len(tds) < ncols THEN ncols ELSE Len(tds)) |->
        IF j <= Len(tds) THEN Some(Strip(tds[j])) ELSE None]

\* The rows of the body that have cells, aligned.
BodyRows(trs, ncols) ==
    LET hasCells(tds) == tds # <<>>
        kept == SelectSeq(trs, hasCells)
    IN  [i \in 1..Len(kept) |-> AlignedRow(kept[i], ncols)]

\* pd.DataFrame(rows, columns=columns): rows of one width, which must be
\* the number of columns when there is a row.
RowsFitColumns(rows, columns) ==
    \A i \in 1..Len(rows) : Len(rows[i]) = Len(columns)

\* df.insert(0, "trainer_name", ...); df.insert(1, "source_url", ...)
WithContext(f, name, url) ==
    Frame(<<<<"t","r","a","i","n","e","r","_","n","a","m","e">>, <<"s","o","u","r","c","e","_","u","r","l">>>> \o f.columns,
          [i \in 1..Len(f.rows) |-> <<name, Some(url)>> \o f.rows[i]])

\* scrape_trainer_history(k) on page p.
ScrapeTrainerHistory(k, p) ==
    IF p.kind = "neterr" THEN Fails("ConnectionError", <<>>)
    ELSE IF p.kind = "httperr" THEN Fails("HTTPError", <<>>)
    ELSE IF IsNone(p.table) THEN Gives(EmptyFrame)
    ELSE IF IsNone(Get(p.table).thead) \/ IsNone(Get(p.table).tbody)
    THEN Fails("AttributeError", <<"find_all">>)
    ELSE LET ths == Get(Get(p.table).thead)
             columns == [i \in 1..Len(ths) |-> ColumnName(ths[i])]
             rows == BodyRows(Get(Get(p.table).tbody), Len(columns))
             trainer_name == IF IsNone(p.h1) THEN None ELSE Some(Strip(Get(p.h1)))
         IN  IF ~RowsFitColumns(rows, columns)
             THEN Fails("ValueError", <<"columns">>)
             ELSE Gives(WithContext(Frame(columns, rows), trainer_name, k))

\* The pages scrape_trainer_history is tried on.
HeaderCells == {[title |-> None, text |-> <<" ","C","l","u","b"," ">>],
                [title |-> Some(<<>>), text |-> <<"P","t","s">>],
                [title |-> Some(<<"M","a","t","c","h","e","s">>), text |-> <<"M">>]}
\* The text of the j-th cell of a row.
CellText(j) == <<" ", Digits[(j % 10) + 1], "\n">>
BodyRow(n) == [j \in 1..n |-> CellText(j)]
HistoryTables ==
    {[thead |-> None, tbody |-> Some(<<>>)],
     [thead |-> Some(<<>>), tbody |-> None]}
    \cup {[thead |-> Some(ths), tbody |-> Some(trs)] :
            ths \in SeqsUpTo(HeaderCells, MaxCols),
            trs \in SeqsUpTo({BodyRow(n) : n \in {0} \cup (MaxCols - 1)..(MaxCols + 1)},
                             MaxRows)}
HistoryPages ==
    {[kind |-> "neterr", h1 |-> None, table |-> None],
     [kind |-> "httperr", h1 |-> None, table |-> None]}
    \cup {[kind |-> "html", h1 |-> h, table |-> t] :
            h \in {None, Some(<<" ","P","e","p"," ">>)},
            t \in {None} \cup {Some(x) : x \in HistoryTables}}

\* scrape_trainer_history from its request on.
HistoryFetched(s, p) ==
    LET s1 == Got(s, s.link, p)
        r == ScrapeTrainerHistory(s.link, p)
    IN  IF r.exc # NoExc THEN Raised(s1, r.exc)
        ELSE [s1 EXCEPT !.pc = "done", !.result = r.value]

---------------------------------------------------------------------------
(* scrape_trainer.                                                         *)

\* " ".join((s or "").split()), s a str or None
Squash(s) == IF IsNone(s) THEN <<>> ELSE Join(SplitWS(Get(s)), <<" ">>)

\* norm_key's mapping, as a dict
KeyMapping ==
    << <<<<"n","a","m","e","_","i","n","_","h","o","m","e","_","c","o","u","n","t","r","y">>, <<"f","u","l","l","_","n","a","m","e","_","n","a","t","i","v","e">>>>,
       <<<<"f","u","l","l","_","n","a","m","e">>, <<"f","u","l","l","_","n","a","m","e","_","n","a","t","i","v","e">>>>,
       <<<<"d","a","t","e","_","o","f","_","b","i","r","t","h","_","a","g","e">>, <<"d","a","t","e","_","o","f","_","b","i","r","t","h","_","a","g","e">>>>,
       <<<<"d","a","t","e","_","o","f","_","b","i","r","t","h">>, <<"d","a","t","e","_","o","f","_","b","i","r","t","h","_","a","g","e">>>>,
       <<<<"p","l","a","c","e","_","o","f","_","b","i","r","t","h">>, <<"p","l","a","c","e","_","o","f","_","b","i","r","t","h">>>>,
       <<<<"c","i","t","i","z","e","n","s","h","i","p">>, <<"c","i","t","i","z","e","n","s","h","i","p">>>>,
       <<<<"a","v","g",".","_","t","e","r","m","_","a","s","_","t","r","a","i","n","e","r">>, <<"a","v","g","_","t","e","r","m","_","a","s","_","t","r","a","i","n","e","r">>>>,
       <<<<"a","v","g","_","t","e","r","m","_","a","s","_","t","r","a","i","n","e","r">>, <<"a","v","g","_","t","e","r","m","_","a","s","_","t","r","a","i","n","e","r">>>>,
       <<<<"t","r","a","i","n","e","r","i","n","g","_","l","i","c","e","n","c","e">>, <<"t","r","a","i","n","e","r","i","n","g","_","l","i","c","e","n","c","e">>>>,
       <<<<"p","r","e","f","e","r","r","e","d","_","f","o","r","m","a","t","i","o","n">>, <<"p","r","e","f","e","r","r","e","d","_","f","o","r","m","a","t","i","o","n">>>> >>

\* norm_key(raw)
NormKey(raw) ==
    LET k1 == Strip(Lower(raw))
        k2 == Replace(Replace(k1, <<":">>, <<>>), <<"/">>, <<" ">>)
        k3 == Join(SplitWS(k2), <<" ">>)
        k4 == Replace(k3, <<" ">>, <<"_">>)
    IN  IF HasKey(KeyMapping, k4) THEN Lookup(KeyMapping, k4) ELSE k4

\* The key of one <li>: its direct text, else its whole text up to ":".
EntryKey(li) ==
    LET key_text == IF ~IsNone(li.direct) /\ Get(li.direct) # <<>>
                    THEN Get(li.direct)
                    ELSE Split(li.full, <<":">>)[1]
    IN  NormKey(Squash(Some(key_text)))

\* The value of one <li>: its content span squashed, or None.
EntryVal(li) == IF IsNone(li.span) THEN None ELSE Some(Squash(li.span))

\* A merge that stores every value a span gives, empty or not.
Store_Always(data, li) ==
    LET val == EntryVal(li)
    IN  IF ~IsNone(val) THEN DictPut(data, EntryKey(li), Get(val))
        ELSE data

\* `if val: data[key] = val`
Store(data, li) ==
    LET val == EntryVal(li)
    IN  IF ~IsNone(val) /\ Get(val) # <<>> THEN DictPut(data, EntryKey(li), Get(val))
        ELSE data

\* The <li> entries of all blocks, in page order.
RECURSIVE Flatten(_)
Flatten(blocks) ==
    IF blocks = <<>> THEN <<>> ELSE blocks[1] \o Flatten(Tail(blocks))

\* `data` after the entries lis
RECURSIVE Collect(_)
Collect(lis) == IF lis = <<>> THEN <<>> ELSE Store(Collect(Front(lis)), Last(lis))

\* The keys every trainer row has besides the context columns.
CuratedKeys == <<<<"f","u","l","l","_","n","a","m","e","_","n","a","t","i","v","e">>, <<"d","a","t","e","_","o","f","_","b","i","r","t","h","_","a","g","e">>, <<"p","l","a","c","e","_","o","f","_","b","i","r","t","h">>,
                 <<"c","i","t","i","z","e","n","s","h","i","p">>, <<"a","v","g","_","t","e","r","m","_","a","s","_","t","r","a","i","n","e","r">>, <<"t","r","a","i","n","e","r","i","n","g","_","l","i","c","e","n","c","e">>,
                 <<"p","r","e","f","e","r","r","e","d","_","f","o","r","m","a","t","i","o","n">>>>
TRAINER_NAME == <<"t","r","a","i","n","e","r","_","n","a","m","e">>
SOURCE_URL == <<"s","o","u","r","c","e","_","u","r","l">>

\* data.get(k)
DictGet(d, k) == IF HasKey(d, k) THEN Some(Lookup(d, k)) ELSE None

\* The returned row, as a dict: the context, the curated keys, then the
\* keys of `data` the row does not have yet.
TrainerRow(data, trainer_name, url) ==
    LET base == << <<TRAINER_NAME, trainer_name>>, <<SOURCE_URL, Some(url)>> >>
                \o [i \in 1..Len(CuratedKeys) |->
                      <<CuratedKeys[i], DictGet(data, CuratedKeys[i])>>]
        isNew(kv) == ~HasKey(base, kv[1])
        extra == SelectSeq(data, isNew)
    IN  base \o [i \in 1..Len(extra) |-> <<extra[i][1], Some(extra[i][2])>>]

\* scrape_trainer(k) on page p.
ScrapeTrainer(k, p) ==
    IF p.kind = "neterr" THEN Fails("ConnectionError", <<>>)
    ELSE IF p.kind = "httperr" THEN Fails("HTTPError", <<>>)
    ELSE Gives(TrainerRow(Collect(Flatten(p.blocks)),
                          IF IsNone(p.h1) THEN None ELSE Some(Squash(p.h1)), k))

\* The pages scrape_trainer is tried on.
EntryLabels ==
    {[direct |-> Some(<<" ","N","a","m","e"," ","i","n"," ","h","o","m","e"," ","c","o","u","n","t","r","y",":">>), full |-> <<>>],
     [direct |-> None, full |-> <<"F","u","l","l"," ","N","a","m","e",":"," ","A">>],
     [direct |-> Some(<<"A","g","e","n","t",":">>), full |-> <<>>],
     [direct |-> Some(<<"S","o","u","r","c","e"," ","U","R","L",":">>), full |-> <<>>]}
EntrySpans == {None, Some(<<" ">>), Some(<<"A">>), Some(<<" ","B"," "," ","b"," ">>)}
Entries == {[direct |-> l.direct, full |-> l.full, span |-> v] :
              l \in EntryLabels, v \in EntrySpans}
TrainerPages ==
    {[kind |-> "neterr", h1 |-> None, blocks |-> <<>>],
     [kind |-> "httperr", h1 |-> None, blocks |-> <<>>]}
    \cup UNION {{[kind |-> "html", h1 |-> h,
                   blocks |-> <<SubSeq(es, 1, n), SubSeq(es, n + 1, Len(es))>>] :
                    h \in {None, Some(<<" ","P","e","p"," "," ","G"," ">>)},
                    n \in 0..Len(es)} :
                 es \in SeqsUpTo(Entries, MaxEntries)}

\* scrape_trainer from its request on.
TrainerFetched(s, p) ==
    LET s1 == Got(s, s.link, p)
        r == ScrapeTrainer(s.link, p)
    IN  IF r.exc # NoExc THEN Raised(s1, r.exc)
        ELSE [s1 EXCEPT !.pc = "done", !.result = r.value]

---------------------------------------------------------------------------
(* The actions.                                                            *)

NoLink == <<>>
Ready == pc = "idle"
PlayerLinkArgs == {AbsUrl(h) : h \in PlayerHrefs}
TrainerLinkArgs == {<<TRANSFERMARKT_ROOT, "pep", "profil", "trainer", "5672">>}

NoArg == "<no argument>"

Init ==
    /\ op = "none" /\ year = NoArg /\ league = NoArg /\ link = NoLink
    /\ pc = "idle" /\ clients = <<>> /\ released = <<>>
    /\ valid_seasons = None /\ club_links = <<>> /\ idx = 0
    /\ player_links = <<>> /\ soup = NoPage /\ found = {} /\ fetched = <<>>
    /\ warned = <<>> /\ df = None /\ result = <<>> /\ exc = NoExc

CallValidSeasons ==
    /\ Ready
    /\ \E l \in LeagueArgs :
         Apply(EnterValidSeasons(Fresh("get_valid_seasons", NoArg, l, NoLink)))

CallClubLinks ==
    /\ Ready
    /\ \E y \in YearArgs, l \in LeagueArgs :
         Apply(EnterClubLinks(Fresh("get_club_links", y, l, NoLink)))

CallPlayerLinks ==
    /\ Ready
    /\ \E y \in YearArgs, l \in LeagueArgs :
         Apply(EnterPlayerLinks(Fresh("get_player_links", y, l, NoLink)))

CallMatchLinks ==
    /\ Ready
    /\ \E y \in YearArgs, l \in LeagueArgs :
         Apply(EnterValidSeasons(Fresh("get_match_links", y, l, NoLink)))

FetchSeasons ==
    /\ pc = "seasons"
    /\ \E p \in SeasonPages : Apply(SeasonsFetched(Cur, p))

FetchRoster ==
    /\ pc = "roster"
    /\ \E p \in RosterPages : Apply(RosterFetched(Cur, p, <<>>))

FetchClub ==
    /\ pc = "clubs"
    /\ \E p \in ClubPages :
         \E o \in Orders(Range(player_links \o ParseClub(p).value)) :
            Apply(ClubFetched(Cur, p, o))

FetchFixtures ==
    /\ pc = "fixtures"
    /\ \E p \in FixturePages : Apply(FixturesFetched(Cur, p))

\* scrape_players(y, l): get_player_links first.
CallScrapePlayers ==
    /\ Ready
    /\ \E y \in YearArgs, l \in LeagueArgs :
         Apply(EnterPlayerLinks(Fresh("scrape_players", y, l, NoLink)))

\* The citizenship list of page p in one of the orders list(set(...)) gives.
CitizenshipOrders(p) == Orders(Range(p.flags))

FetchPlayer ==
    /\ pc = "players"
    /\ \E p \in AggPlayerPages : \E co \in CitizenshipOrders(p) :
         Apply(PlayerFetched(Cur, p, co))

\* The caller has the result or the exception; the object keeps nothing.
CallEnds ==
    /\ pc = "done"
    /\ Apply(Fresh("none", NoArg, NoArg, NoLink))

CallScrapePlayer ==
    /\ Ready
    /\ \E k \in PlayerLinkArgs :
         Apply([Fresh("scrape_player", NoArg, NoArg, k) EXCEPT !.pc = "profile"])

FetchProfile ==
    /\ pc = "profile"
    /\ \E p \in PlayerPages : \E co \in CitizenshipOrders(p) :
         Apply(ProfileFetched(Cur, p, co))

CallScrapeTrainerHistory ==
    /\ Ready
    /\ \E k \in TrainerLinkArgs :
         Apply([Fresh("scrape_trainer_history", NoArg, NoArg, k)
                  EXCEPT !.pc = "history"])

FetchHistory ==
    /\ pc = "history"
    /\ \E p \in HistoryPages : Apply(HistoryFetched(Cur, p))

CallScrapeTrainer ==
    /\ Ready
    /\ \E k \in TrainerLinkArgs :
         Apply([Fresh("scrape_trainer", NoArg, NoArg, k) EXCEPT !.pc = "trainer"])

FetchTrainer ==
    /\ pc = "trainer"
    /\ \E p \in TrainerPages : Apply(TrainerFetched(Cur, p))

Next ==
    \/ CallValidSeasons
    \/ CallClubLinks
    \/ CallPlayerLinks
    \/ CallMatchLinks
    \/ FetchSeasons
    \/ FetchRoster
    \/ FetchClub
    \/ FetchFixtures
    \/ CallScrapePlayers
    \/ FetchPlayer
    \/ CallEnds

Spec == Init /\ [][Next]_vars

\* The player profile extractor on its own.
PlayerNext == CallScrapePlayer \/ FetchProfile \/ CallEnds
SpecPlayer == Init /\ [][PlayerNext]_vars

\* The trainer extractors on their own.
TrainerNext == CallScrapeTrainer \/ FetchTrainer \/ CallEnds
SpecTrainer == Init /\ [][TrainerNext]_vars

HistoryNext == CallScrapeTrainerHistory \/ FetchHistory \/ CallEnds
SpecHistory == Init /\ [][HistoryNext]_vars


---------------------------------------------------------------------------
(* What the claims speak of, said without the operators that model the     *)
(* code.                                                                   *)

Done == pc = "done"
Returned == pc = "done" /\ exc = NoExc
Failed == pc = "done" /\ exc # NoExc

Max(S) == CHOOSE x \in S : \A y \in S : y <= x
Min(S) == CHOOSE x \in S : \A y \in S : x <= y
NoDuplicates(xs) == \A i, j \in 1..Len(xs) : xs[i] = xs[j] => i = j

\* Text t without its leading and trailing whitespace.
Trimmed(t) ==
    LET ns == {i \in 1..Len(t) : t[i] \notin Whitespace}
    IN  IF ns = {} THEN <<>> ELSE SubSeq(t, Min(ns), Max(ns))

\* Label x contains the (lowercase) substring, whatever the case of x.
Mentions(x, needle) ==
    \E i \in 1..(Len(x) - Len(needle) + 1) :
        \A j \in 1..Len(needle) : LowerChar(x[i + j - 1]) = needle[j]

\* The trimmed text after the last ":" of label x (all of x without one).
AfterLastColon(x) ==
    LET cs == {i \in 1..Len(x) : x[i] = ":"}
    IN  Trimmed(SubSeq(x, IF cs = {} THEN 1 ELSE Max(cs) + 1, Len(x)))

ScanNeedles == {LAST_CLUB, SINCE, JOINED, CONTRACT_EXPIRES}
Mentioning(ls, needle) == {i \in 1..Len(ls) : Mentions(ls[i], needle)}
\* Some label-scanned field has two or more matching labels.
Ambiguous(ls) == \E needle \in ScanNeedles : Cardinality(Mentioning(ls, needle)) >= 2

PlayerColumns ==
    {"Name", "ID", "Value", "Value_last_updated", "DOB", "Age", "Height",
     "Nationality", "Citizenship", "Position", "Other_positions", "Team",
     "Last_club", "Since", "Joined", "Contract_expiration",
     "Market_value_history", "Transfer_history"}

\* The requests of this call that went to player profile pages.
IsPlayerUrl(u) == u \in PlayerLinkArgs
PlayerFetches == SelectSeq(fetched, IsPlayerUrl)

---------------------------------------------------------------------------
(* The claims.                                                             *)

\* C1: in get_club_links, once get_valid_seasons has returned the season
\* dict: if the (string) year is not one of its keys the call has failed
\* with InvalidYearException carrying the year, the league and the list of
\* the dict's keys, and only the competition page was requested (the roster
\* page never is); if the year is a key, InvalidYearException is not raised.
C1_InvalidSeason ==
    (op = "get_club_links" /\ IsStr(year) /\ ~IsNone(valid_seasons)) =>
        IF ~HasKey(Get(valid_seasons), year)
        THEN /\ pc = "done"
             /\ exc = Exc("InvalidYearException",
                          <<year, league, Keys(Get(valid_seasons))>>)
             /\ fetched = <<CompUrl(league)>>
        ELSE exc.type # "InvalidYearException"

\* C1 witness: get_club_links failed with InvalidYearException although
\* the season selector listed a season.
C1_Witness ==
    /\ op = "get_club_links" /\ pc = "done"
    /\ exc.type = "InvalidYearException"
    /\ ~IsNone(valid_seasons) /\ Len(Get(valid_seasons)) >= 1

\* C2 (as claimed): get_match_links with a known competition and a string
\* year that is not a key of the season dict fails with the typed
\* InvalidYearException carrying the year and the league, without
\* requesting the fixture page.
C2_MatchLinksTypedError ==
    (/\ op = "get_match_links" /\ league \in Comps /\ IsStr(year)
     /\ ~IsNone(valid_seasons) /\ ~HasKey(Get(valid_seasons), year)) =>
        /\ pc = "done"
        /\ exc = Exc("InvalidYearException",
                     <<year, league, Keys(Get(valid_seasons))>>)
        /\ fetched = <<CompUrl(league)>>

\* C3 (as claimed): on every profile page that was fetched, scrape_player
\* returns exactly one record with the fixed column set, and raises only
\* when one of the four label-scanned fields has two or more matching labels.
C3_NeverAborts ==
    (op = "scrape_player" /\ pc = "done" /\ soup.kind = "html") =>
        /\ exc # NoExc => Ambiguous(soup.labels)
        /\ exc = NoExc => Len(result) = 1 /\ DOMAIN result[1] = PlayerColumns

\* C4: scrape_player on a fetched page.  When it returns, each of Last club,
\* Since, Joined and Contract expiration is None if no label mentions the
\* field's substring (case-insensitively), and otherwise exactly one label
\* does and the field is the trimmed text after that label's last ":";
\* each field depends on its own matches only.  When the code reaches the
\* scan (name, birth date, height and position were extracted) and some
\* field has two or more matching labels, the call raises AssertionError,
\* and AssertionError is raised in no other case.
C4_LabelScan ==
    (op = "scrape_player" /\ pc = "done" /\ soup.kind = "html") =>
        LET ls == soup.labels
            n(needle) == Cardinality(Mentioning(ls, needle))
            the(needle) == ls[CHOOSE i \in 1..Len(ls) : Mentions(ls[i], needle)]
            ok(needle, v) ==
                IF n(needle) = 0 THEN v = None
                ELSE n(needle) = 1 /\ v = Some(AfterLastColon(the(needle)))
            reached == /\ PlayerName(soup).exc = NoExc
                       /\ PlayerDob(soup).exc = NoExc
                       /\ PlayerHeight(soup).exc = NoExc
                       /\ PlayerPosition(soup).exc = NoExc
        IN  /\ exc = NoExc =>
                /\ ok(LAST_CLUB, result[1].Last_club)
                /\ ok(SINCE, result[1].Since)
                /\ ok(JOINED, result[1].Joined)
                /\ ok(CONTRACT_EXPIRES, result[1].Contract_expiration)
            /\ (reached /\ Ambiguous(ls)) => exc.type = "AssertionError"
            /\ exc.type = "AssertionError" => Ambiguous(ls)

\* C4 witness: a record whose Since comes from the upper-case label
\* "SINCE: 1:2 " (so it is "2"), with Joined from its own label and no
\* label for Last club.
C4_Witness ==
    /\ op = "scrape_player" /\ pc = "done" /\ exc = NoExc
    /\ Len(soup.labels) = 2
    /\ result[1].Since = Some(<<"2">>)
    /\ result[1].Joined = Some(<<"B">>)
    /\ result[1].Last_club = None

\* C5: scrape_players, once get_player_links has returned the links.  The
\* profile pages requested so far are the first links of the list, in the
\* list's order, one per round; the row added last is the record of the
\* page read last.  When the call returns, every link was requested, the
\* table has one row per link and row i carries link i's ID.  When a round
\* raises, the call fails with that exception, no table is returned and
\* the requests stop at the link that raised.
C5_Aggregator ==
    (op = "scrape_players" /\ ~IsNone(df)) =>
        LET pf == PlayerFetches
            rows == Get(df)
        IN  /\ Len(pf) <= Len(player_links)
            /\ pf = SubSeq(player_links, 1, Len(pf))
            /\ pc \in {"players", "done"}
            /\ pc = "players" => Len(pf) = idx - 1 /\ Len(rows) = idx - 1
            /\ \A i \in 1..Len(rows) : rows[i].ID = Last(player_links[i])
            /\ (rows # <<>> /\ exc = NoExc) =>
                  \E co \in CitizenshipOrders(soup) :
                     Last(rows) = ScrapePlayer(Last(pf), soup, co).value
            /\ Returned =>
                  /\ pf = player_links
                  /\ result = rows
                  /\ Len(result) = Len(player_links)
            /\ Failed =>
                  /\ result = <<>>
                  /\ Len(pf) = idx /\ Len(rows) = idx - 1
                  /\ \A co \in CitizenshipOrders(soup) :
                        ScrapePlayer(Last(pf), soup, co).exc = exc

\* C5 witness: the first of two links raised, and the second was never
\* requested.
C5_Witness ==
    /\ op = "scrape_players" /\ ~IsNone(df) /\ Failed
    /\ Len(player_links) = 2
    /\ PlayerFetches = <<player_links[1]>>

\* C6: scrape_trainer on a fetched page.  "Name in home country" and
\* "Full name" both normalize to full_name_native.  For every normalized
\* key of the page's entries (all blocks, in page order), `data` holds
\* under it the value of the last entry with that key whose value is
\* non-empty, and does not hold the key when all its entries are empty or
\* without a value.  The returned row has every curated key, with data's
\* value or None, and every other key of data that is not a context column.
C6_TrainerMerge ==
    /\ NormKey(<<"N","a","m","e"," ","i","n"," ","h","o","m","e"," ","c","o","u","n","t","r","y">>) = <<"f","u","l","l","_","n","a","m","e","_","n","a","t","i","v","e">>
    /\ NormKey(<<"F","u","l","l"," ","n","a","m","e">>) = <<"f","u","l","l","_","n","a","m","e","_","n","a","t","i","v","e">>
    /\ (op = "scrape_trainer" /\ pc = "done" /\ soup.kind = "html") =>
        LET lis == soup.blocks[1] \o soup.blocks[2]
            data == Collect(lis)
            keyOf(i) == EntryKey(lis[i])
            nonEmpty(i) == /\ ~IsNone(lis[i].span)
                           /\ \E j \in 1..Len(Get(lis[i].span)) :
                                 Get(lis[i].span)[j] \notin Whitespace
            with(k) == {i \in 1..Len(lis) : keyOf(i) = k /\ nonEmpty(i)}
            context == {TRAINER_NAME, SOURCE_URL}
        IN  /\ exc = NoExc
            /\ \A k \in {keyOf(i) : i \in 1..Len(lis)} :
                  IF with(k) = {}
                  THEN /\ ~HasKey(data, k)
                       /\ k \notin Range(CuratedKeys) \cup context => ~HasKey(result, k)
                  ELSE /\ HasKey(data, k)
                       /\ Lookup(data, k) = Squash(lis[Max(with(k))].span)
                       /\ k \notin context =>
                             /\ HasKey(result, k)
                             /\ Lookup(result, k) = Some(Lookup(data, k))
            /\ \A i \in 1..Len(CuratedKeys) :
                  /\ HasKey(result, CuratedKeys[i])
                  /\ Lookup(result, CuratedKeys[i]) = DictGet(data, CuratedKeys[i])

\* C6 witness: two entries, labelled "Name in home country" and (by the
\* fallback text) "Full name"; the first has a value, the second has none
\* or an empty one, and the row keeps the first entry's value.
C6_Witness ==
    /\ op = "scrape_trainer" /\ pc = "done" /\ soup.kind = "html"
    /\ Len(soup.blocks[1]) = 1 /\ Len(soup.blocks[2]) = 1
    /\ ~IsNone(soup.blocks[1][1].direct) /\ IsNone(soup.blocks[2][1].direct)
    /\ EntryKey(soup.blocks[1][1]) = <<"f","u","l","l","_","n","a","m","e","_","n","a","t","i","v","e">>
    /\ EntryKey(soup.blocks[2][1]) = <<"f","u","l","l","_","n","a","m","e","_","n","a","t","i","v","e">>
    /\ soup.blocks[1][1].span = Some(<<" ","B"," "," ","b"," ">>)
    /\ soup.blocks[2][1].span = Some(<<" ">>)
    /\ Lookup(result, <<"f","u","l","l","_","n","a","m","e","_","n","a","t","i","v","e">>) = Some(<<"B"," ","b">>)

\* C7: get_player_links, when it returns: every club link was requested in
\* turn, the result has no duplicates, and its elements are exactly the
\* player links found in the roster tables of the club pages.  A club page
\* without a roster table does not make the call fail.
C7_PlayerLinks ==
    /\ (op = "get_player_links" /\ Returned) =>
          /\ SubSeq(fetched, 3, Len(fetched)) = club_links
          /\ NoDuplicates(result)
          /\ Range(result) = found
    /\ (op = "get_player_links" /\ pc \in {"clubs", "done"}
        /\ soup.kind = "notable") => exc = NoExc

\* C7 witness: two clubs list the same player, who is returned once.
C7_Witness ==
    /\ op = "get_player_links" /\ Returned
    /\ Len(club_links) = 2
    /\ Len(player_links) = 2
    /\ Len(result) = 1

\* C8: get_club_links with a valid season, once the roster-listing page was
\* read.  Without a listing table the call returns the empty list and has
\* warned, and does not raise; a warning is emitted in no other case.  With
\* a table, a returned list has one URL per club cell, in page order.
C8_ClubLinks ==
    (op = "get_club_links" /\ pc = "done" /\ Len(fetched) = 2) =>
        /\ soup.kind = "notable" => exc = NoExc /\ result = <<>> /\ Len(warned) = 1
        /\ soup.kind # "notable" => warned = <<>>
        /\ (soup.kind = "table" /\ exc = NoExc) =>
              /\ Len(result) = Len(soup.cells)
              /\ \A i \in 1..Len(result) :
                    result[i] = <<TRANSFERMARKT_ROOT>> \o soup.cells[i]

\* C8 witness: a table with more than one club cell, returned in page order.
C8_Witness ==
    /\ op = "get_club_links" /\ Returned /\ soup.kind = "table"
    /\ Len(result) >= 2 /\ result[1] # result[2]

\* C9: a call given a string competition that is not in `comps` (and, where
\* the year is checked first, a string year) has failed with
\* InvalidLeagueException carrying the identifier and the list of valid
\* ones, without requesting any page; get_valid_seasons, get_club_links
\* and get_match_links have created no client; the error leaves
\* get_player_links and scrape_players unchanged, their own client closed.
C9_InvalidCompetition ==
    (/\ op \in {"get_valid_seasons", "get_club_links", "get_player_links",
                "get_match_links", "scrape_players"}
     /\ IsStr(league) /\ league \notin Comps
     /\ op \in {"get_club_links", "get_player_links", "scrape_players"}
           => IsStr(year)) =>
        /\ pc = "done"
        /\ exc = Exc("InvalidLeagueException", <<league, "Transfermarkt", CompKeys>>)
        /\ fetched = <<>>
        /\ clients = <<>>
        /\ released = IF op \in {"get_player_links", "scrape_players"}
                      THEN <<"get_player_links">> ELSE <<>>

\* C9 witness: the aggregator failed with InvalidLeagueException.
C9_Witness ==
    /\ op = "scrape_players" /\ pc = "done"
    /\ exc.type = "InvalidLeagueException"

\* C10: scrape_trainer_history on a fetched page.  Without a table the
\* result is the empty frame and nothing is raised.  With a table, a
\* returned frame has the columns trainer_name, source_url and then, per
\* header cell, its title when that is non-empty and its trimmed text
\* otherwise; it has one row per body row that has cells, in order, each as
\* long as the columns: the display name, the URL, the row's trimmed cell
\* texts, then None up to the column count.  A table whose rows have no
\* more cells than there are header cells raises nothing.
C10_TrainerHistory ==
    (op = "scrape_trainer_history" /\ pc = "done" /\ soup.kind = "html") =>
        IF IsNone(soup.table)
        THEN exc = NoExc /\ result.columns = <<>> /\ result.rows = <<>>
        ELSE LET t == Get(soup.table)
                 whole == ~IsNone(t.thead) /\ ~IsNone(t.tbody)
                 ths == Get(t.thead)
                 hasCells(tr) == Len(tr) > 0
                 trs == SelectSeq(Get(t.tbody), hasCells)
                 colName(th) == IF ~IsNone(th.title) /\ Len(Get(th.title)) > 0
                                THEN Get(th.title) ELSE Trimmed(th.text)
                 name == IF IsNone(soup.h1) THEN None ELSE Some(Trimmed(Get(soup.h1)))
             IN  /\ exc = NoExc =>
                    /\ whole
                    /\ result.columns = <<TRAINER_NAME, SOURCE_URL>>
                                        \o [i \in 1..Len(ths) |-> colName(ths[i])]
                    /\ Len(result.rows) = Len(trs)
                    /\ \A i \in 1..Len(trs) :
                          /\ Len(result.rows[i]) = Len(result.columns)
                          /\ result.rows[i][1] = name
                          /\ result.rows[i][2] = Some(link)
                          /\ \A j \in 1..Len(ths) :
                                result.rows[i][j + 2] =
                                    IF j <= Len(trs[i]) THEN Some(Trimmed(trs[i][j]))
                                    ELSE None
                 /\ (whole /\ \A i \in 1..Len(trs) : Len(trs[i]) <= Len(ths))
                       => exc = NoExc

\* C10 witness: a returned frame with a row that was padded with None, from
\* a table that also had a row without cells.
C10_Witness ==
    /\ op = "scrape_trainer_history" /\ Returned /\ ~IsNone(soup.table)
    /\ Len(result.rows) < Len(Get(Get(soup.table).tbody))
    /\ \E i \in 1..Len(result.rows) : Last(result.rows[i]) = None

\* C11: get_valid_seasons, get_club_links, get_player_links and
\* get_match_links.  No client is closed twice, nor closed and still open.
\* While a call waits for a page, the open clients are those of the frames
\* that are inside their try blocks, outermost first.  When the call has
\* returned or raised, on whatever path, no client is open, and the clients
\* closed are exactly those that were created, innermost first: one by
\* get_valid_seasons if it requested its page, one by get_club_links or
\* get_match_links if it requested its page, and get_player_links' own
\* (created before the nested lookup) in every case.  Between calls no
\* client is open.
C11_ClientsReleased ==
    LET links == {"get_valid_seasons", "get_club_links", "get_player_links",
                  "get_match_links"}
        outer == IF op = "get_player_links" THEN <<"get_player_links">> ELSE <<>>
        second == IF op = "get_match_links" THEN "get_match_links"
                  ELSE "get_club_links"
        created == (IF Len(fetched) >= 1 THEN <<"get_valid_seasons">> ELSE <<>>)
                   \o (IF Len(fetched) >= 2 /\ op # "get_valid_seasons"
                       THEN <<second>> ELSE <<>>)
                   \o outer
    IN  /\ op = "none" => clients = <<>>
        /\ op \in links =>
              /\ NoDuplicates(released \o clients)
              /\ pc = "idle" => clients = <<>> /\ released = <<>>
              /\ pc = "seasons" => clients = outer \o <<"get_valid_seasons">>
              /\ pc = "roster" => clients = outer \o <<"get_club_links">>
              /\ pc = "fixtures" => clients = <<"get_match_links">>
              /\ pc = "clubs" => clients = <<"get_player_links">>
              /\ pc = "done" => clients = <<>> /\ released = created

\* C11 witness: get_player_links ended by an error of the nested lookup
\* (the season is invalid) while its own client was open; the nested
\* client and then its own were closed.
C11_Witness ==
    /\ op = "get_player_links" /\ pc = "done"
    /\ exc.type = "InvalidYearException"
    /\ clients = <<>>
    /\ released = <<"get_valid_seasons", "get_player_links">>

============================================================================
